---------------------------- MODULE Spec2Model ----------------------------
(***************************************************************************)
(* kubernetes-ipfs test runner (src/main.go): the repetition loop of main, *)
(* handleStep's fan-out / fan-in over two buffered channels, the worker    *)
(* goroutines of runInPodAsync with their timeout timers, output capture,  *)
(* assertion resolution and the summary counters.                          *)
(*                                                                         *)
(* Strings are sequences of one-character strings, so that strings.Split,  *)
(* the env entry format and the regular expression of the                  *)
(* assertion resolver are computed, not assumed.                           *)
(***************************************************************************)
EXTENDS Integers, Sequences, FiniteSets, TLC

(***************************************************************************)
(* Bounds of the model.                                                    *)
(***************************************************************************)
\* config.nodes: pods available, and the widest node range of a step
Nodes == 2
\* config.times ranges over 0..MaxTimes
MaxTimes == 2

(***************************************************************************)
(* Characters and strings.                                                 *)
(***************************************************************************)
NL == "\n"
QUOTE == "\""

\* strings.Split(s, newline): the fields between newlines; always at least one field
RECURSIVE SplitAcc(_, _, _, _)
SplitAcc(s, k, cur, acc) ==
    IF k > Len(s) THEN Append(acc, cur)
    ELSE IF s[k] = NL THEN SplitAcc(s, k + 1, <<>>, Append(acc, cur))
    ELSE SplitAcc(s, k + 1, Append(cur, s[k]), acc)

Split(s) == SplitAcc(s, 1, <<>>, <<>>)

\* strings.Join(lines, newline)
RECURSIVE Join(_)
Join(lines) ==
    IF Len(lines) = 0 THEN <<>>
    ELSE IF Len(lines) = 1 THEN lines[1]
    ELSE lines[1] \o <<NL>> \o Join(Tail(lines))

\* the env entry appended at main.go:217: SaveTo, =, quote, line, quote
EnvEntry(name, line) == name \o <<"=", QUOTE>> \o line \o <<QUOTE>>

(***************************************************************************)
(* The regular expression of the assertion resolver (main.go:232-234).     *)
(* The target is spliced into the pattern unescaped, so its characters are *)
(* pattern atoms: a dot matches any character but a newline, a letter        *)
(* matches itself (the targets of the model use no other metacharacter).   *)
(***************************************************************************)
AtomMatches(p, c) == IF p = "." THEN c # NL ELSE p = c

\* rex.FindStringSubmatch(e): <<>> when e does not match, else <<e, group 1>>
FindStringSubmatch(target, e) ==
    LET n == Len(target) IN
    IF /\ Len(e) >= n + 3
       /\ \A k \in 1..n : AtomMatches(target[k], e[k])
       /\ e[n + 1] = "="
       /\ e[n + 2] = QUOTE
       /\ e[Len(e)] = QUOTE
       /\ \A k \in (n + 3)..(Len(e) - 1) : e[k] # NL
    THEN <<e, SubSeq(e, n + 3, Len(e) - 1)>>
    ELSE <<>>

\* a scan of env from its most recent entry
RECURSIVE FindValueLast(_, _, _)
FindValueLast(e, target, k) ==
    IF k > Len(e) THEN <<>>
    ELSE LET found == FindStringSubmatch(target, e[Len(e) - k + 1]) IN
         IF Len(found) = 2 /\ found[2] # <<>> THEN found[2]
         ELSE FindValueLast(e, target, k + 1)

\* the scan of env: the first entry that matches with a non-empty group
RECURSIVE FindValue(_, _, _)
FindValue(e, target, k) ==
    IF k > Len(e) THEN <<>>
    ELSE LET found == FindStringSubmatch(target, e[k]) IN
         IF Len(found) = 2 /\ found[2] # <<>> THEN found[2]
         ELSE FindValue(e, target, k + 1)

\* value: the match, or the target as a literal when nothing was found
ExpectedValue(e, target) ==
    LET value == FindValue(e, target, 1) IN
    IF value = <<>> THEN target ELSE value


\* an outputs loop that puts the new bindings in front of env
RECURSIVE SaveOutputsInFront(_, _, _, _)
SaveOutputsInFront(e, outputs, out, index) ==
    IF index >= Len(outputs) THEN e
    ELSE IF index >= Len(out) THEN e
    ELSE SaveOutputsInFront(<<EnvEntry(outputs[index + 1].SaveTo, out[index + 1])>> \o e,
                            outputs, out, index + 1)

(***************************************************************************)
(* Processing of one result by handleStep (main.go:201-258).               *)
(***************************************************************************)
\* the outputs loop (main.go:209-219); index is the position in step.Outputs
RECURSIVE SaveOutputs(_, _, _, _)
SaveOutputs(e, outputs, out, index) ==
    IF index >= Len(outputs) THEN e
    ELSE IF index >= Len(out) THEN e
    ELSE SaveOutputs(Append(e, EnvEntry(outputs[index + 1].SaveTo, out[index + 1])),
                     outputs, out, index + 1)

\* the assertions loop (main.go:220-258); acc collects the counter increments
\* and, for the properties, the expected value each assertion resolved to
RECURSIVE CheckAssertions(_, _, _, _, _)
CheckAssertions(e, assertions, out, k, acc) ==
    IF k > Len(assertions) THEN acc
    ELSE IF assertions[k].Line >= Len(out) THEN acc
    ELSE LET lineToAssert == out[assertions[k].Line + 1]
             value == ExpectedValue(e, assertions[k].ShouldBeEqualTo)
         IN  CheckAssertions(e, assertions, out, k + 1,
                 IF lineToAssert # value
                 THEN [acc EXCEPT !.Failures = @ + 1, !.values = Append(@, value)]
                 ELSE [acc EXCEPT !.Successes = @ + 1, !.values = Append(@, value)])

NoAssertions == [Successes |-> 0, Failures |-> 0, values |-> <<>>]

\* an outcome evaluation that does not compare the failures
evaluateOutcomeNoFailures(s, expected) ==
    IF s.Successes # expected.Successes THEN 1
    ELSE IF s.Timeouts # expected.Timeouts THEN 1
    ELSE 0

\* evaluateOutcome (main.go:459-471): the exit code
evaluateOutcome(s, expected) ==
    IF \/ s.Successes # expected.Successes
       \/ s.Failures # expected.Failures
       \/ s.Timeouts # expected.Timeouts
    THEN 1 ELSE 0

(***************************************************************************)
(* Test definitions.  Letters stand for the strings of the YAML files:     *)
(* H is a variable name (HASH, PIDS), a and b are output lines.            *)
(***************************************************************************)
\* what a command may write to stdout before it exits or is killed
Stdouts == { <<>>, <<"a", NL>>, <<"b", NL>> }

\* start_and_check.yml, step 1: capture line 0 into a variable
StepCapture(onNode, endNode) ==
    [OnNode |-> onNode, EndNode |-> endNode, Timeout |-> 0,
     Outputs |-> << [Line |-> 0, SaveTo |-> <<"H">>] >>,
     Assertions |-> <<>>, WriteToFile |-> <<>>]

\* start_and_check.yml, step 2: line 0 equals the captured variable
StepCheck(onNode, endNode) ==
    [OnNode |-> onNode, EndNode |-> endNode, Timeout |-> 0,
     Outputs |-> <<>>,
     Assertions |-> << [Line |-> 0, ShouldBeEqualTo |-> <<"H">>] >>,
     WriteToFile |-> <<>>]

\* a step with a timeout, asserting a literal
StepSleep(onNode, endNode) ==
    [OnNode |-> onNode, EndNode |-> endNode, Timeout |-> 1,
     Outputs |-> <<>>,
     Assertions |-> << [Line |-> 0, ShouldBeEqualTo |-> <<"a">>] >>,
     WriteToFile |-> <<>>]

\* a step that captures, asserts and writes its output to a file; it names
\* line 1 and has a literal dot as an expected value
StepMixed(onNode, endNode) ==
    [OnNode |-> onNode, EndNode |-> endNode, Timeout |-> 0,
     Outputs |-> << [Line |-> 1, SaveTo |-> <<"H">>] >>,
     Assertions |-> << [Line |-> 1, ShouldBeEqualTo |-> <<".">>],
                       [Line |-> 0, ShouldBeEqualTo |-> <<"H">>] >>,
     WriteToFile |-> <<"f">>]

\* a test definition without steps
TestEmpty == [Times |-> 1, Steps |-> <<>>]

\* start_and_check.yml: capture on node 1, then check on a range of nodes
TestStartAndCheck ==
    [Times |-> 1, Steps |-> <<StepCapture(1, 0), StepCheck(1, 2)>>]

\* commands that time out on two nodes, then one more step
TestTimeout ==
    [Times |-> 1, Steps |-> <<StepSleep(1, 2), StepCheck(1, 0)>>]

\* one step over every node of the deployment
TestMixed == [Times |-> 1, Steps |-> <<StepMixed(1, Nodes)>>]

\* a repeated test: the check comes before the capture of the same repetition
TestRepeat ==
    [Times |-> MaxTimes, Steps |-> <<StepCheck(2, 0), StepCapture(1, 0)>>]

Tests == {TestEmpty, TestStartAndCheck, TestTimeout, TestMixed, TestRepeat}

\* config.expected of the test definitions
Expecteds ==
    { [Successes |-> 0, Failures |-> 0, Timeouts |-> 0],
      [Successes |-> Nodes, Failures |-> 0, Timeouts |-> 0],
      [Successes |-> 0, Failures |-> 0, Timeouts |-> Nodes] }

\* pods.Items[k].Metadata.Name of the deployment
PodName(k) == <<"p", k>>
PodList == [isNil |-> FALSE, Items |-> [k \in 1..Nodes |-> PodName(k)]]

(***************************************************************************)
(* State.                                                                  *)
(***************************************************************************)
VARIABLES
    test,       \* the loaded test definition (main.go:119-125)
    pc,         \* where the main goroutine is
    i,          \* main's repetition counter (main.go:133)
    stepIdx,    \* position of the range loop over test.Steps (main.go:157)
    pods,       \* result of getPods (main.go:154); NIL when it failed
    env,        \* main's / handleStep's env slice
    summary,    \* the Summary counters
    exitCode,   \* the process exit code, -1 while running
    call,       \* number of handleStep calls made so far
    j,          \* handleStep's loop counter (main.go:188, 194)
    out,        \* handleStep's out, received at main.go:195
    chans,      \* the channels of the handleStep calls that are still referenced
    workers,    \* the live goroutines of runInPodAsync, a set of records
    outFile,    \* content of the file named by write_to_file
    hist        \* history of the current step, read only by the properties

vars == <<test, pc, i, stepIdx, pods, env, summary, exitCode, call, j, out,
          chans, workers, outFile, hist>>

\* the nil pointer getPods returns with an error (main.go:274)
NIL == [isNil |-> TRUE, Items |-> <<>>]

\* handleStep's out before anything was received
NoLines == [lines |-> <<>>, from |-> 0]

\* no channel is referenced
NoChans == [c \in {} |-> 0]

\* the range variable step of main.go:157-160: end_node 0 means on_node
CurStep ==
    LET s == test.Steps[stepIdx] IN
    IF s.EndNode = 0 THEN [s EXCEPT !.EndNode = s.OnNode] ELSE s

\* a channel capacity one short of the number of nodes
numNodesShort(step) == step.EndNode - step.OnNode

\* main.go:182
numNodes(step) == step.EndNode - step.OnNode + 1

\* History of the handleStep call in progress or just returned: the step, env
\* and the counters at its start, how many of its timers fired, and one
\* record per result processed; and, once main has evaluated the outcome,
\* the config.expected it compared with.  No action reads it.
NoHist ==
    [step |-> [Timeout |-> 0, Outputs |-> <<>>, Assertions |-> <<>>],
     envStart |-> <<>>, sumStart |-> [Successes |-> 0, Failures |-> 0, Timeouts |-> 0],
     fired |-> 0, taken |-> <<>>,
     expected |-> [Successes |-> 0, Failures |-> 0, Timeouts |-> 0]]

Init ==
    /\ test \in Tests
    /\ pc = "loop"
    /\ i = 0
    /\ stepIdx = 0
    /\ pods = NIL
    /\ env = <<>>
    /\ summary = [Successes |-> 0, Failures |-> 0, Timeouts |-> 0, TestsRan |-> 0]
    /\ exitCode = -1
    /\ call = 0
    /\ j = 0
    /\ out = NoLines
    /\ chans = NoChans
    /\ workers = {}
    /\ outFile = <<>>
    /\ hist = NoHist


(***************************************************************************)
(* main (main.go:133-170).                                                 *)
(***************************************************************************)
Fatal == /\ pc' = "fatal"
         /\ exitCode' = 1

\* an env that keeps the bindings of the previous repetition
StaleEnv == env

\* env := make([]string, 0) (main.go:156)
FreshEnv == <<>>

\* one pass of main.go:133-156: count the running pods, scale up when there
\* are too few, list the pods, reset env.  Each kubectl call may fail.
Provision ==
    /\ pc = "loop"
    /\ i < test.Times
    /\ \E getRunningPodsFails \in BOOLEAN, enough \in BOOLEAN,
          scaleToFails \in BOOLEAN, getPodsFails \in BOOLEAN :
          IF getRunningPodsFails \/ (~enough /\ scaleToFails)
          THEN \* fatal(err), main.go:144-152
               /\ Fatal
               /\ UNCHANGED <<pods, env, stepIdx>>
          ELSE \* main.go:154: the error of getPods is not looked at
               /\ pods' = IF getPodsFails THEN NIL ELSE PodList
               /\ env' = FreshEnv
               /\ stepIdx' = 1
               /\ pc' = "steps"
               /\ UNCHANGED exitCode
    /\ UNCHANGED <<test, i, summary, call, j, out, chans, workers, outFile, hist>>

\* a repetition's end that starts the next one with fresh counters
EndRepetitionReset ==
    /\ pc = "steps"
    /\ stepIdx > Len(test.Steps)
    /\ summary' = [Successes |-> 0, Failures |-> 0, Timeouts |-> 0, TestsRan |-> 0]
    /\ i' = i + 1
    /\ pc' = "loop"
    /\ hist' = NoHist
    /\ UNCHANGED <<test, stepIdx, pods, env, exitCode, call, j, out, chans,
                   workers, outFile>>

\* main.go:157 with no step left, then main.go:163 and the next repetition
EndRepetition ==
    /\ pc = "steps"
    /\ stepIdx > Len(test.Steps)
    /\ summary' = [summary EXCEPT !.TestsRan = @ + 1]
    /\ i' = i + 1
    /\ pc' = "loop"
    /\ hist' = NoHist
    /\ UNCHANGED <<test, stepIdx, pods, env, exitCode, call, j, out, chans,
                   workers, outFile>>

\* main.go:161 evaluates *pods: a nil pointer dereference when getPods failed
DerefNilPods ==
    /\ pc = "steps"
    /\ stepIdx <= Len(test.Steps)
    /\ pods = NIL
    /\ pc' = "panic"
    /\ exitCode' = 2
    /\ UNCHANGED <<test, i, stepIdx, pods, env, summary, call, j, out, chans,
                   workers, outFile, hist>>

\* main.go:158-161 and handleStep up to the dispatch loop (main.go:173-188):
\* both channels are made with capacity numNodes
EnterStep ==
    /\ pc = "steps"
    /\ stepIdx <= Len(test.Steps)
    /\ pods # NIL
    /\ call' = call + 1
    /\ chans' = [c \in DOMAIN chans \cup {call + 1} |->
                    IF c = call + 1
                    THEN [outputStrings |-> <<>>, outputErr |-> <<>>,
                          cap |-> numNodes(CurStep)]
                    ELSE chans[c]]
    /\ j' = CurStep.OnNode
    /\ pc' = "dispatch"
    /\ hist' = [step |-> [Timeout |-> CurStep.Timeout,
                          Outputs |-> CurStep.Outputs,
                          Assertions |-> CurStep.Assertions],
                expected |-> hist.expected,
                envStart |-> env,
                sumStart |-> [Successes |-> summary.Successes,
                              Failures |-> summary.Failures,
                              Timeouts |-> summary.Timeouts],
                fired |-> 0, taken |-> <<>>]
    /\ UNCHANGED <<test, i, stepIdx, pods, env, summary, exitCode, out, workers,
                   outFile>>

\* main.go:133 with i = Times, then main.go:165-170.  config.expected is
\* read here for the first time, so its value is drawn here.
Finish ==
    /\ pc = "loop"
    /\ i >= test.Times
    /\ \E expected \in Expecteds :
          /\ exitCode' = evaluateOutcome(summary, expected)
          /\ hist' = [hist EXCEPT !.expected = expected]
    /\ pc' = "exit"
    /\ UNCHANGED <<test, i, stepIdx, pods, env, summary, call, j, out, chans,
                   workers, outFile>>


(***************************************************************************)
(* handleStep (main.go:173-261).                                           *)
(***************************************************************************)
\* whether main is inside the handleStep call number c
InCall(c) == pc \in {"dispatch", "recvLines", "recvFlag"} /\ call = c

\* the channels still referenced: those of the running call and of live goroutines
Referenced(ch, ws, running) ==
    [c \in {d \in DOMAIN ch : d \in running \/ \E w \in ws : w.call = d} |-> ch[c]]

\* the pod name handed to runInPodAsync at main.go:190
TargetPod(step, k) == pods.Items[step.OnNode]

\* a dispatch loop that stops one node short of endNode
DispatchFewer(k, endNode) == k < endNode

\* the loop conditions j <= endNode of main.go:188 and main.go:194
DispatchMore(k, endNode) == k <= endNode

\* a collection loop that stops one result short
CollectMoreEarly(k, endNode) == k < endNode

CollectMore(k, endNode) == k <= endNode

\* a timer armed whatever the timeout
ArmTimerAlways(timeout) == "armed"

\* if timeout != 0 { timer := time.AfterFunc(...) } (main.go:347-348)
ArmTimer(timeout) == IF timeout # 0 THEN "armed" ELSE "none"

\* one iteration of the dispatch loop (main.go:188-191): runInPodAsync starts a
\* goroutine, which builds the command from env, starts it and arms the timer
\* when the step has a timeout (main.go:326-354)
Dispatch ==
    /\ pc = "dispatch"
    /\ LET step == CurStep IN
       /\ workers' = workers \cup
            {[call |-> call, j |-> j, name |-> TargetPod(step, j), env |-> env,
              timeout |-> step.Timeout, pc |-> "wait", cmd |-> "running",
              stdout |-> <<>>, lines |-> <<>>, timeout_reached |-> FALSE,
              timer |-> ArmTimer(step.Timeout)]}
       /\ IF DispatchMore(j + 1, step.EndNode)
          THEN j' = j + 1 /\ pc' = "dispatch"
          ELSE j' = step.OnNode /\ pc' = "recvLines"
    /\ UNCHANGED <<test, i, stepIdx, pods, env, summary, exitCode, call, out,
                   chans, outFile, hist>>

\* out := <-outputStrings (main.go:195); from tags the sender for the properties
RecvLines ==
    /\ pc = "recvLines"
    /\ chans[call].outputStrings # <<>>
    /\ out' = Head(chans[call].outputStrings)
    /\ chans' = [chans EXCEPT ![call].outputStrings = Tail(@)]
    /\ pc' = "recvFlag"
    /\ UNCHANGED <<test, i, stepIdx, pods, env, summary, exitCode, call, j,
                   workers, outFile, hist>>

\* err := <-outputErr and the rest of the loop body (main.go:196-258), then the
\* loop test and, when the loop is over, return env (main.go:260) to main.go:161
RecvFlag ==
    /\ pc = "recvFlag"
    /\ chans[call].outputErr # <<>>
    /\ LET step == CurStep
           err == Head(chans[call].outputErr)
           saved == IF err.flag THEN env
                    ELSE SaveOutputs(env, step.Outputs, out.lines, 0)
           res == IF err.flag THEN NoAssertions
                  ELSE CheckAssertions(saved, step.Assertions, out.lines, 1, NoAssertions)
           rest == [chans EXCEPT ![call].outputErr = Tail(@)]
       IN
       /\ summary' = [summary EXCEPT
                         !.Timeouts = IF err.flag THEN @ + 1 ELSE @,
                         !.Successes = @ + res.Successes,
                         !.Failures = @ + res.Failures]
       /\ env' = saved
       /\ \E opened \in BOOLEAN :
             outFile' = IF ~err.flag /\ step.WriteToFile # <<>> /\ opened
                        THEN outFile \o Join(out.lines) ELSE outFile
       /\ hist' = [hist EXCEPT !.taken = Append(@,
                     [linesFrom |-> out.from, flagFrom |-> err.from,
                      lines |-> out.lines, timedOut |-> err.flag,
                      envBefore |-> env, envAfter |-> saved,
                      values |-> res.values,
                      Successes |-> res.Successes, Failures |-> res.Failures])]
       /\ IF CollectMore(j + 1, step.EndNode)
          THEN /\ j' = j + 1
               /\ pc' = "recvLines"
               /\ chans' = rest
               /\ UNCHANGED stepIdx
               /\ out' = out
          ELSE \* handleStep returns: its locals j and out are gone
               /\ j' = 0
               /\ out' = NoLines
               /\ pc' = "steps"
               /\ stepIdx' = stepIdx + 1
               /\ chans' = Referenced(rest, workers, {})
    /\ UNCHANGED <<test, i, pods, exitCode, call, workers>>

(***************************************************************************)
(* The goroutine of runInPodAsync (main.go:326-368), its command and its   *)
(* timer.                                                                  *)
(***************************************************************************)
Update(w, v) == (workers \ {w}) \cup {v}

\* the command exits by itself, having written o to stdout
CmdExit(w) ==
    /\ w.cmd = "running"
    /\ \E o \in Stdouts :
          workers' = Update(w, [w EXCEPT !.cmd = "exited", !.stdout = o])
    /\ UNCHANGED <<test, pc, i, stepIdx, pods, env, summary, exitCode, call, j,
                   out, chans, outFile, hist>>

\* the timer fires and its function runs cmd.Process.Kill() (main.go:348-349):
\* a running command dies with what it had written so far
TimerKill(w) ==
    /\ w.timer = "armed"
    /\ IF w.cmd = "running"
       THEN \E o \in Stdouts :
               workers' = Update(w, [w EXCEPT !.timer = "kill", !.cmd = "killed",
                                              !.stdout = o])
       ELSE workers' = Update(w, [w EXCEPT !.timer = "kill"])
    /\ hist' = IF w.call = call THEN [hist EXCEPT !.fired = @ + 1] ELSE hist
    /\ UNCHANGED <<test, pc, i, stepIdx, pods, env, summary, exitCode, call, j,
                   out, chans, outFile>>

\* a timer callback that counts the timeout itself
TimerSetCounting(w) ==
    /\ w.timer = "kill"
    /\ workers' = Update(w, [w EXCEPT !.timer = "done", !.timeout_reached = TRUE])
    /\ summary' = [summary EXCEPT !.Timeouts = @ + 1]
    /\ UNCHANGED <<test, pc, i, stepIdx, pods, env, exitCode, call, j,
                   out, chans, outFile, hist>>

\* the timer function goes on: timeout_reached = true (main.go:350)
TimerSet(w) ==
    /\ w.timer = "kill"
    /\ workers' = Update(w, [w EXCEPT !.timer = "done", !.timeout_reached = TRUE])
    /\ UNCHANGED <<test, pc, i, stepIdx, pods, env, summary, exitCode, call, j,
                   out, chans, outFile, hist>>

\* cmd.Wait() returns once the command has ended (main.go:355, 358)
WorkerWait(w) ==
    /\ w.pc = "wait"
    /\ w.cmd # "running"
    /\ workers' = Update(w, [w EXCEPT !.pc = IF w.timeout # 0 THEN "stop" ELSE "send"])
    /\ UNCHANGED <<test, pc, i, stepIdx, pods, env, summary, exitCode, call, j,
                   out, chans, outFile, hist>>

\* timer.Stop() (main.go:356): a timer that has not fired never will; a timer
\* function that already runs is not waited for
WorkerStop(w) ==
    /\ w.pc = "stop"
    /\ workers' = Update(w, [w EXCEPT !.pc = "send",
                                      !.timer = IF @ = "armed" THEN "stopped" ELSE @])
    /\ UNCHANGED <<test, pc, i, stepIdx, pods, env, summary, exitCode, call, j,
                   out, chans, outFile, hist>>

\* lines = strings.Split(out.String(), newline); chanStrings <- lines
\* (main.go:364-366); the send waits for room in the buffer
WorkerSendLines(w) ==
    /\ w.pc = "send"
    /\ Len(chans[w.call].outputStrings) < chans[w.call].cap
    /\ LET lines == Split(w.stdout) IN
       /\ chans' = [chans EXCEPT ![w.call].outputStrings =
                       Append(@, [lines |-> lines, from |-> w.j])]
       /\ workers' = Update(w, [w EXCEPT !.pc = "flag", !.lines = lines])
    /\ UNCHANGED <<test, pc, i, stepIdx, pods, env, summary, exitCode, call, j,
                   out, outFile, hist>>

\* what is left of a goroutine after main.go:367: the deferred send of lines.
\* Nothing reads its other locals any more, nor what a timer function that
\* is still running will write; they are returned to their initial values.
Deferred(w) ==
    [call |-> w.call, j |-> w.j, name |-> w.name, env |-> <<>>, timeout |-> w.timeout,
     pc |-> "defer", cmd |-> "exited", stdout |-> <<>>, lines |-> w.lines,
     timeout_reached |-> FALSE, timer |-> "none"]

\* chanTimeout <- timeout_reached (main.go:367); killed tells the properties
\* whether the timer killed this command
WorkerSendFlag(w) ==
    /\ w.pc = "flag"
    /\ Len(chans[w.call].outputErr) < chans[w.call].cap
    /\ chans' = [chans EXCEPT ![w.call].outputErr =
                    Append(@, [flag |-> w.timeout_reached, from |-> w.j,
                               killed |-> w.cmd = "killed"])]
    /\ workers' = Update(w, Deferred(w))
    /\ UNCHANGED <<test, pc, i, stepIdx, pods, env, summary, exitCode, call, j,
                   out, outFile, hist>>

\* the deferred function sends lines once more (main.go:328-330) and the
\* goroutine ends
WorkerDefer(w) ==
    /\ w.pc = "defer"
    /\ Len(chans[w.call].outputStrings) < chans[w.call].cap
    /\ workers' = workers \ {w}
    /\ chans' = Referenced([chans EXCEPT ![w.call].outputStrings =
                               Append(@, [lines |-> w.lines, from |-> w.j])],
                           workers \ {w},
                           IF pc \in {"dispatch", "recvLines", "recvFlag"}
                           THEN {call} ELSE {})
    /\ UNCHANGED <<test, pc, i, stepIdx, pods, env, summary, exitCode, call, j,
                   out, outFile, hist>>

Next ==
    \/ Provision
    \/ EndRepetition
    \/ DerefNilPods
    \/ EnterStep
    \/ Finish
    \/ Dispatch
    \/ RecvLines
    \/ RecvFlag
    \/ \E w \in workers : CmdExit(w)
    \/ \E w \in workers : TimerKill(w)
    \/ \E w \in workers : TimerSet(w)
    \/ \E w \in workers : WorkerWait(w)
    \/ \E w \in workers : WorkerStop(w)
    \/ \E w \in workers : WorkerSendLines(w)
    \/ \E w \in workers : WorkerSendFlag(w)
    \/ \E w \in workers : WorkerDefer(w)

Spec == Init /\ [][Next]_vars

\* The Go scheduler runs a goroutine that can run, main included, and a
\* command that is running ends: a step that is possible is eventually taken.
FairSpec == Spec /\ WF_vars(Next)


(***************************************************************************)
(* Properties.                                                             *)
(***************************************************************************)
\* the results handleStep has processed in the current (or last) call
Taken == {hist.taken[k] : k \in 1..Len(hist.taken)}

\* the bindings a result added to env
OwnBindings(r) == SubSeq(r.envAfter, Len(r.envBefore) + 1, Len(r.envAfter))

\* C1: handleStep consumes each invocation's output lines exactly once: no
\* invocation's lines are received twice (and so, with numNodes receives,
\* none is dropped).
C1_EachResultConsumedOnce ==
    \A a, b \in 1..Len(hist.taken) :
        a # b => hist.taken[a].linesFrom # hist.taken[b].linesFrom

\* the invocation of node index k of this step has reported timedOut = true
ReportedTimedOut(k) ==
    \/ \E r \in Taken : r.flagFrom = k /\ r.timedOut
    \/ /\ call \in DOMAIN chans
       /\ \E n \in 1..Len(chans[call].outputErr) :
             chans[call].outputErr[n].from = k /\ chans[call].outputErr[n].flag

\* C2: the output lines of an invocation that timed out are never used:
\* whenever handleStep processes lines as a result that did not time out,
\* the invocation that produced these lines did not report a timeout.
C2_TimedOutOutputUnused ==
    \A r \in Taken : ~r.timedOut => ~ReportedTimedOut(r.linesFrom)

\* C3: a worker whose command was killed by the timeout timer reports
\* timedOut = true.
C3_KilledReportsTimedOut ==
    \A c \in DOMAIN chans : \A n \in 1..Len(chans[c].outputErr) :
        chans[c].outputErr[n].killed => chans[c].outputErr[n].flag

\* C4: the invocation dispatched for node index j targets the handle of
\* pod j.
C4_TargetsEveryIndex ==
    \A w \in workers : w.name = PodName(w.j)

\* C5: each step is a barrier: every goroutine that is still alive once its
\* handleStep call has returned has reported its result (it has sent its
\* lines and its flag, so its command has ended), hence no command of a
\* later step or repetition runs beside an unreported one.
C5_StepBarrier ==
    \A w \in workers : ~InCall(w.call) => w.pc = "defer"

\* C5 witness: a goroutine of a later step is alive beside one of an earlier
\* step, after a timeout was counted
C5_Witness ==
    /\ summary.Timeouts > 0
    /\ \E v \in workers, w \in workers : v.call < w.call /\ w.pc = "wait"

\* C6: the assertions of a result are resolved against the bindings of the
\* earlier steps followed by the bindings of this same result, never against
\* bindings of another result of the same step.
C6_OwnBindingsOnly ==
    \A r \in Taken :
        ~r.timedOut =>
            r.values = CheckAssertions(hist.envStart \o OwnBindings(r),
                                       hist.step.Assertions, r.lines, 1,
                                       NoAssertions).values

\* name and value of an env entry made by EnvEntry
RECURSIVE BindingName(_)
BindingName(e) ==
    IF e = <<>> \/ Head(e) = "=" THEN <<>> ELSE <<Head(e)>> \o BindingName(Tail(e))

BindingValue(e) == SubSeq(e, Len(BindingName(e)) + 3, Len(e) - 1)

\* the non-empty values bound to name in e
ValuesOf(e, name) ==
    {BindingValue(e[k]) : k \in {n \in 1..Len(e) :
                                   BindingName(e[n]) = name /\ BindingValue(e[n]) # <<>>}}

\* C7: an assertion target that names a binding with a non-empty value
\* resolves to such a value; a target no binding has resolves to the target
\* itself.
C7_ResolveByName ==
    \A r \in Taken : \A k \in 1..Len(r.values) :
        LET target == hist.step.Assertions[k].ShouldBeEqualTo
            bound == ValuesOf(r.envAfter, target)
        IN  IF bound # {} THEN r.values[k] \in bound ELSE r.values[k] = target

\* the bindings by declared line: each output binds its variable to the line
\* at output.Line; the first line index out of bounds ends the loop
RECURSIVE DeclaredBindings(_, _, _)
DeclaredBindings(outputs, lines, k) ==
    IF k > Len(outputs) THEN <<>>
    ELSE IF outputs[k].Line >= Len(lines) THEN <<>>
    ELSE <<EnvEntry(outputs[k].SaveTo, lines[outputs[k].Line + 1])>>
         \o DeclaredBindings(outputs, lines, k + 1)

\* C8: a result that did not time out binds each output variable to the
\* captured line at the declared line index, up to the first index that is
\* out of bounds.
C8_BindsDeclaredLine ==
    \A r \in Taken :
        ~r.timedOut => OwnBindings(r) = DeclaredBindings(hist.step.Outputs, r.lines, 1)

\* stdout split on newline with the trailing empty line stripped, as runInPod
\* returns it (main.go:405-406)
Stripped(lines) == SubSeq(lines, 1, Len(lines) - 1)

\* how many assertions come before the first whose line is out of bounds
RECURSIVE InBounds(_, _, _)
InBounds(assertions, n, k) ==
    IF k > Len(assertions) \/ assertions[k].Line >= n THEN 0
    ELSE 1 + InBounds(assertions, n, k + 1)

\* C9: with the captured output being stdout split on newline without its
\* trailing empty line, an assertion whose line index is beyond it increments
\* no counter and ends the assertions of the result: the counters grow by
\* the number of assertions before it.
C9_OutOfBoundsSkipped ==
    \A r \in Taken :
        ~r.timedOut =>
            r.Successes + r.Failures =
                InBounds(hist.step.Assertions, Len(Stripped(r.lines)), 1)

\* C10: when a step has returned, Summary.timeouts has grown by the number
\* of its invocations whose timeout timer fired.
C10_TimeoutsCountedOnce ==
    (pc = "steps" /\ hist.taken # <<>>) =>
        summary.Timeouts - hist.sumStart.Timeouts = hist.fired

\* the assertions evaluated over the results processed so far: for each
\* result not reported timed out, those before the first whose line is beyond
\* the lines received
RECURSIVE Evaluated(_, _)
Evaluated(taken, k) ==
    IF k > Len(taken) THEN 0
    ELSE (IF taken[k].timedOut THEN 0
          ELSE InBounds(hist.step.Assertions, Len(taken[k].lines), 1))
         + Evaluated(taken, k + 1)

\* C11: no step of the run lowers a counter of the summary, successes and
\* failures change only when the collection loop finishes a result, and
\* during and after every handleStep call successes + failures has grown,
\* since the call started, by the number of in-bounds assertions of the
\* results processed that were not reported timed out.
C11_CountersAccumulate ==
    /\ [](InCall(call) \/ hist.taken # <<>> =>
            summary.Successes + summary.Failures =
                hist.sumStart.Successes + hist.sumStart.Failures
                + Evaluated(hist.taken, 1))
    /\ [][/\ summary'.Successes >= summary.Successes
          /\ summary'.Failures >= summary.Failures
          /\ summary'.Timeouts >= summary.Timeouts
          /\ summary'.TestsRan >= summary.TestsRan
          /\ (pc # "recvFlag" =>
                /\ summary'.Successes = summary.Successes
                /\ summary'.Failures = summary.Failures
                /\ summary'.Timeouts = summary.Timeouts)]_vars

\* a result is counted in the second repetition on top of the first one's
C11_Witness ==
    /\ i >= 1
    /\ hist.taken # <<>>
    /\ hist.sumStart.Successes + hist.sumStart.Failures >= 1
    /\ summary.Successes + summary.Failures
         > hist.sumStart.Successes + hist.sumStart.Failures

\* C12: the first step of every repetition starts with an empty env: env is
\* empty when main is about to run it, it is the env the call started with,
\* and every command the call started was given no binding.
C12_EnvEmptyAtRepetitionStart ==
    /\ (pc = "steps" /\ stepIdx = 1) => env = <<>>
    /\ (InCall(call) /\ stepIdx = 1) =>
          /\ hist.envStart = <<>>
          /\ \A w \in workers :
                (w.call = call /\ w.pc # "defer") => w.env = <<>>

\* the second repetition of a test whose first repetition bound a name: its
\* first step has a command running, and then resolves H to the literal H
C12_Witness ==
    /\ test = TestRepeat
    /\ i = 1
    /\ stepIdx = 1
    /\ \/ \E w \in workers : w.call = call /\ w.pc = "wait"
       \/ pc = "recvFlag"

\* C13: when main has evaluated the outcome, the exit code is 0 exactly when
\* the summary equals config.expected on successes, failures and timeouts,
\* and it is not 0 as soon as one of the three differs.
C13_VerdictIffExpected ==
    pc = "exit" =>
        /\ exitCode = 0 <=>
              /\ summary.Successes = hist.expected.Successes
              /\ summary.Failures = hist.expected.Failures
              /\ summary.Timeouts = hist.expected.Timeouts
        /\ exitCode \in {0, 1}

\* a run whose steps counted successes ends with exit code 0
C13_Witness ==
    /\ pc = "exit"
    /\ exitCode = 0
    /\ summary.Successes > 0

\* C14: a command started with timeout 0 has no timer and never sets its
\* timeout_reached; during and after a handleStep call of a step with timeout
\* 0 no timer of the call has fired, no flag in flight on its channel is
\* true, no result it processed was reported timed out and the timeouts
\* counter is the one the call started with.
C14_NoTimeoutWithoutTimer ==
    /\ \A w \in workers :
          w.timeout = 0 => w.timer = "none" /\ ~w.timeout_reached
    /\ ((InCall(call) \/ hist.taken # <<>>) /\ hist.step.Timeout = 0) =>
          /\ hist.fired = 0
          /\ \A r \in Taken : ~r.timedOut
          /\ summary.Timeouts = hist.sumStart.Timeouts
          /\ InCall(call) =>
                \A k \in 1..Len(chans[call].outputErr) :
                    ~chans[call].outputErr[k].flag

\* a step with timeout 0 has returned, after a step that counted timeouts
C14_Witness ==
    /\ pc = "steps"
    /\ hist.step.Timeout = 0
    /\ hist.taken # <<>>
    /\ hist.sumStart.Timeouts > 0

\* C15: every step that changes env or summary is a step of main (the
\* collection loop processing a result, or main between steps and
\* repetitions) in which no goroutine of runInPodAsync moves: no goroutine
\* writes env or summary.
C15_SingleWriter ==
    [][(env' # env \/ summary' # summary) =>
          /\ workers' = workers
          /\ pc \in {"loop", "steps", "recvFlag"}]_vars

\* the collection loop has added a binding while a command of the same call
\* is still running
C15_Witness ==
    /\ InCall(call)
    /\ env # hist.envStart
    /\ \E w \in workers : w.call = call /\ w.pc = "wait"

\* C16: a run in which listing the pods failed never evaluates the outcome:
\* every test runs at least one repetition, so main exits through
\* evaluateOutcome only with the pod list of its last repetition.
C16_ProvisioningErrorFatal ==
    (pc = "exit" /\ test.Times > 0) => ~pods.isNil

\* the positions in e of the bindings of name with a non-empty value
Named(e, name) ==
    {n \in 1..Len(e) : BindingName(e[n]) = name /\ BindingValue(e[n]) # <<>>}

\* the least element of a non-empty set of positions
First(S) == CHOOSE n \in S : \A m \in S : n <= m

\* C17: when env holds bindings with the name of an assertion target and a
\* non-empty value, the assertion is compared with the value of the first of
\* them in env order, whichever results of the step added the later ones.
C17_FirstBindingWins ==
    \A r \in Taken :
        \A k \in 1..Len(r.values) :
            LET named == Named(r.envAfter, hist.step.Assertions[k].ShouldBeEqualTo) IN
            named # {} => r.values[k] = BindingValue(r.envAfter[First(named)])

\* two results of a step bound the same name to different values, and an
\* assertion of the later result resolved it to the value of the earlier
C17_Witness ==
    \E r \in Taken :
        \E k \in 1..Len(r.values) :
            LET e == r.envAfter
                named == Named(e, hist.step.Assertions[k].ShouldBeEqualTo) IN
            /\ \E m, n \in named : BindingValue(e[m]) # BindingValue(e[n])
            /\ r.values[k] = BindingValue(e[First(named)])

\* C18: every handleStep call returns to main, and every run ends: by the
\* outcome evaluation, or before it by fatal or by the nil dereference.
C18_StepsReturn ==
    /\ (pc \in {"dispatch", "recvLines", "recvFlag"}) ~> (pc = "steps")
    /\ <>(pc \in {"exit", "fatal", "panic"})

\* the collection loop waits for the lines of its last result while a
\* command of the call is still running
C18_Witness ==
    /\ pc = "recvLines"
    /\ j = CurStep.EndNode
    /\ numNodes(CurStep) >= 2
    /\ chans[call].outputStrings = <<>>
    /\ \E w \in workers : w.call = call /\ w.cmd = "running"

\* the env a processed result started from: the one of the call for the
\* first result, the one the previous result left for the others
EnvBefore(k) == IF k = 1 THEN hist.envStart ELSE hist.taken[k - 1].envAfter

\* C19: during and after a handleStep call, env is the env the call started
\* with followed by the bindings of the results processed so far, in order:
\* each result starts from the env the previous one left and keeps it as a
\* prefix, a result reported timed out adds nothing, another one adds at most
\* one binding per declared output, named by it and holding a line of the
\* result.  Every command of the call was given the env the call started
\* with, and that env is the one main held when it called handleStep.
C19_EnvThreaded ==
    /\ []((InCall(call) \/ hist.taken # <<>>) =>
            /\ env = EnvBefore(Len(hist.taken) + 1)
            /\ \A k \in 1..Len(hist.taken) :
                  LET r == hist.taken[k]
                      own == OwnBindings(r) IN
                  /\ r.envBefore = EnvBefore(k)
                  /\ Len(r.envAfter) >= Len(r.envBefore)
                  /\ SubSeq(r.envAfter, 1, Len(r.envBefore)) = r.envBefore
                  /\ r.timedOut => own = <<>>
                  /\ Len(own) <= Len(hist.step.Outputs)
                  /\ \A n \in 1..Len(own) :
                        /\ BindingName(own[n]) = hist.step.Outputs[n].SaveTo
                        /\ \E l \in 1..Len(r.lines) :
                              BindingValue(own[n]) = r.lines[l]
            /\ \A w \in workers :
                  (w.call = call /\ w.pc # "defer") => w.env = hist.envStart)
    /\ [][(pc = "steps" /\ pc' = "dispatch") =>
             env' = env /\ hist'.envStart = env]_vars

\* a command of a later step runs with the bindings an earlier step returned
C19_Witness ==
    /\ stepIdx >= 2
    /\ InCall(call)
    /\ hist.envStart # <<>>
    /\ \E w \in workers : w.call = call /\ w.pc = "wait" /\ w.env = hist.envStart

\* C20: whenever goroutines of runInPodAsync exist, a later state has none:
\* each of them gets through its two sends and its deferred send and ends,
\* also those left behind by a handleStep call that has returned.
C20_WorkersTerminate == (workers # {}) ~> (workers = {})

\* the last goroutine of a handleStep call that has returned is at its
\* deferred send, with one place left in the lines channel
C20_Witness ==
    \E w \in workers :
        /\ ~InCall(w.call)
        /\ w.pc = "defer"
        /\ chans[w.call].cap >= 2
        /\ Len(chans[w.call].outputStrings) = chans[w.call].cap - 1

=============================================================================
